---- MODULE Spec2Model ----
(***************************************************************************)
(* Model of src/app.py: a Flask application with two view functions        *)
(* (index, health_check), two error handlers (not_found, internal_error),  *)
(* one configuration entry (MAX_CONTENT_LENGTH) and a __main__ block that  *)
(* reads PORT and FLASK_ENV and calls app.run.                             *)
(*                                                                         *)
(* A request path is the sequence of its segments after the leading slash: *)
(*   "/" is <<"">>, "/health" is <<"health">>, "/health/" is               *)
(*   <<"health", "">>, "//health" is <<"", "health">>.                     *)
(* Strings that the code parses or formats (PORT, the timestamp) are       *)
(* sequences of one-character strings.                                     *)
(***************************************************************************)
EXTENDS Integers, Sequences, FiniteSets, TLC

VARIABLES env, portFree, templatePresent, proc, config, listener,
          clock, startClock, adjusted, conn, lastHealth

vars == <<env, portFree, templatePresent, proc, config, listener,
          clock, startClock, adjusted, conn, lastHealth>>

(***************************************************************************)
(* Bounds of the model.                                                    *)
(***************************************************************************)
\* The wall clock takes the values 0..MaxClock (half-second ticks).
MaxClock == 4
\* Connections served at the same time in SpecConc.
MaxThreads == 2

(***************************************************************************)
(* Characters and numbers.                                                 *)
(***************************************************************************)
DigitChars == <<"0", "1", "2", "3", "4", "5", "6", "7", "8", "9">>

IsDigit(c) == \E i \in 1..10 : DigitChars[i] = c

DigitVal(c) == (CHOOSE i \in 1..10 : DigitChars[i] = c) - 1

IsDigits(s) == Len(s) > 0 /\ \A i \in 1..Len(s) : IsDigit(s[i])

RECURSIVE Num(_)
Num(s) == IF s = <<>> THEN 0
          ELSE Num(SubSeq(s, 1, Len(s) - 1)) * 10 + DigitVal(s[Len(s)])

RECURSIVE PadN(_, _)
PadN(n, w) == IF w = 0 THEN <<>>
              ELSE PadN(n \div 10, w - 1) \o <<DigitChars[(n % 10) + 1]>>

(***************************************************************************)
(* The process environment and __main__'s reading of it.                   *)
(***************************************************************************)
Unset == [set |-> FALSE, val |-> <<>>]

PortValues == {Unset,
               [set |-> TRUE, val |-> <<"9", "0", "9", "0">>],
               [set |-> TRUE, val |-> <<"a", "b", "c">>]}

FlaskEnvUnset == [set |-> FALSE, val |-> ""]

FlaskEnvValues == {FlaskEnvUnset,
                   [set |-> TRUE, val |-> "development"],
                   [set |-> TRUE, val |-> "production"]}

DefaultPort == 8082

\* int(x): the value of a decimal string, ValueError otherwise.
PyInt(s) == IF IsDigits(s) THEN [ok |-> TRUE, val |-> Num(s)]
            ELSE [ok |-> FALSE, val |-> 0]

\* int(os.environ.get('PORT', 8082))
ResolvePort(e) == IF e.PORT.set THEN PyInt(e.PORT.val)
                  ELSE [ok |-> TRUE, val |-> DefaultPort]

\* os.environ.get('FLASK_ENV') == 'development'
ResolveDebug(e) == e.FLASK_ENV.set /\ e.FLASK_ENV.val = "development"

MAX_CONTENT_LENGTH == 16 * 1024 * 1024

BindHost == "0.0.0.0"

NoListener == [host |-> "", port |-> 0]

(***************************************************************************)
(* The wall clock and datetime.utcnow().isoformat().                       *)
(* Clock value t is t half-seconds after 2026-11-03T12:59:58 UTC.          *)
(***************************************************************************)
UtcNow(t) ==
    LET total == 58 + (t \div 2)
        mins  == 59 + (total \div 60)
    IN  [year |-> 2026, month |-> 11, day |-> 3,
         hour |-> 12 + (mins \div 60), minute |-> mins % 60,
         second |-> total % 60, microsecond |-> (t % 2) * 500000]

\* The time of day written on a 12-hour clock (strftime's %I for %H).
isoformat12h(dt) ==
    PadN(dt.year, 4) \o <<"-">> \o PadN(dt.month, 2) \o <<"-">> \o
    PadN(dt.day, 2) \o <<"T">> \o PadN(((dt.hour + 11) % 12) + 1, 2) \o <<":">> \o
    PadN(dt.minute, 2) \o <<":">> \o PadN(dt.second, 2) \o
    (IF dt.microsecond = 0 THEN <<>> ELSE <<".">> \o PadN(dt.microsecond, 6))

\* datetime.isoformat(): YYYY-MM-DDTHH:MM:SS, then .ffffff unless the
\* microsecond is 0.
isoformat(dt) ==
    PadN(dt.year, 4) \o <<"-">> \o PadN(dt.month, 2) \o <<"-">> \o
    PadN(dt.day, 2) \o <<"T">> \o PadN(dt.hour, 2) \o <<":">> \o
    PadN(dt.minute, 2) \o <<":">> \o PadN(dt.second, 2) \o
    (IF dt.microsecond = 0 THEN <<>> ELSE <<".">> \o PadN(dt.microsecond, 6))

\* The shape a client accepts as an ISO-8601 datetime.
IsIso8601(s) ==
    /\ Len(s) \in {19, 26}
    /\ s[5] = "-" /\ s[8] = "-" /\ s[11] = "T" /\ s[14] = ":" /\ s[17] = ":"
    /\ \A i \in {1, 2, 3, 4, 6, 7, 9, 10, 12, 13, 15, 16, 18, 19} : IsDigit(s[i])
    /\ Len(s) = 26 => (s[20] = "." /\ \A i \in 21..26 : IsDigit(s[i]))
    /\ Num(SubSeq(s, 6, 7)) \in 1..12 /\ Num(SubSeq(s, 9, 10)) \in 1..31
    /\ Num(SubSeq(s, 12, 13)) \in 0..23 /\ Num(SubSeq(s, 15, 16)) \in 0..59
    /\ Num(SubSeq(s, 18, 19)) \in 0..59

\* The client's reading of a timestamp: its fields, most significant first.
fromisoformat(s) ==
    <<Num(SubSeq(s, 1, 4)), Num(SubSeq(s, 6, 7)), Num(SubSeq(s, 9, 10)),
      Num(SubSeq(s, 12, 13)), Num(SubSeq(s, 15, 16)), Num(SubSeq(s, 18, 19)),
      IF Len(s) > 19 THEN Num(SubSeq(s, 21, 26)) ELSE 0>>

RECURSIVE LexLeq(_, _)
LexLeq(a, b) == \/ a = <<>>
                \/ a[1] < b[1]
                \/ a[1] = b[1] /\ LexLeq(Tail(a), Tail(b))

\* Timestamp a is no later than timestamp b.
TsLeq(a, b) == LexLeq(fromisoformat(a), fromisoformat(b))

NoTs == <<>>

(***************************************************************************)
(* Requests, and the URL map of app = Flask(__name__): the two routes of   *)
(* the module and the static route Flask adds, /static/<path:filename>.    *)
(***************************************************************************)
Methods == {"GET", "POST", "OPTIONS"}

Paths == {<<"">>, <<"health">>, <<"health", "">>, <<"foo">>,
          <<"static", "app.js">>, <<"static", "missing.js">>}

ContentLengths == {0, MAX_CONTENT_LENGTH + 1}

Requests == [method : Methods, path : Paths, contentLength : ContentLengths]

NoReq == [method |-> "", path |-> <<>>, contentLength |-> 0]

Endpoints == {"index", "health_check", "static"}

\* @app.route without methods=: GET, plus the HEAD and OPTIONS Flask adds.
ViewMethods == {"GET", "HEAD", "OPTIONS"}

\* Rules that also match with a trailing slash (strict_slashes off).
RuleMatchesLoose(ep, path) ==
    CASE ep = "index"        -> path = <<"">>
      [] ep = "health_check" -> path \in {<<"health">>, <<"health", "">>}
      [] ep = "static"       -> Len(path) >= 2 /\ path[1] = "static" /\ path[2] # ""

RuleMatches(ep, path) ==
    CASE ep = "index"        -> path = <<"">>
      [] ep = "health_check" -> path = <<"health">>
      [] ep = "static"       -> Len(path) >= 2 /\ path[1] = "static" /\ path[2] # ""

\* The URL adapter's match, for a path without repeated slashes: an
\* endpoint, MethodNotAllowed when a rule matches the path but not the
\* method, NotFound.
Match(method, path) ==
    LET exact == {ep \in Endpoints : RuleMatches(ep, path)}
    IN  IF exact # {} /\ method \in ViewMethods
        THEN [kind |-> "endpoint", endpoint |-> CHOOSE ep \in exact : TRUE]
        ELSE IF exact # {}
        THEN [kind |-> "MethodNotAllowed", endpoint |-> ""]
        ELSE [kind |-> "NotFound", endpoint |-> ""]

(***************************************************************************)
(* Responses, views and error handlers.                                    *)
(***************************************************************************)
Json == "application/json"
Html == "text/html"

Response(status, mimetype, body, view) ==
    [status |-> status, mimetype |-> mimetype, body |-> body, view |-> view]

NoResp == Response(0, "", [document |-> ""], "")

Returned(resp) == [exc |-> "", resp |-> resp]
Raised(exc) == [exc |-> exc, resp |-> NoResp]

\* A template name that does not exist.
index_wrong_template(tmpl) == Raised("TemplateNotFound")

\* index(): render_template('index.html') loads the template when called.
index(tmpl) ==
    IF tmpl THEN Returned(Response(200, Html, [document |-> "index.html"], "index"))
    ELSE Raised("TemplateNotFound")

\* health_check() with a timestamp taken once, when the process started.
health_check_cached(now) ==
    Returned(Response(200, Json,
        [status |-> "healthy", timestamp |-> isoformat(UtcNow(startClock))],
        "health_check"))

\* health_check(): jsonify of the status and of utcnow().isoformat().
health_check(now) ==
    Returned(Response(200, Json,
        [status |-> "healthy", timestamp |-> isoformat(UtcNow(now))],
        "health_check"))

\* Flask's static view: the file, or NotFound.
send_static_file(exists) ==
    IF exists THEN Returned(Response(200, "application/javascript",
                                     [document |-> "app.js"], "static"))
    ELSE Raised("NotFound")

\* Werkzeug's default 404 page (no handler registered for 404).
not_found_html(error) == Response(404, Html, [document |-> "404 Not Found"], "")

\* @app.errorhandler(404)
not_found(error) == Response(404, Json, [error |-> "Not found"], "")

\* Werkzeug's default 500 page (no handler registered for 500).
internal_error_html(error) == Response(500, Html, [document |-> "500 Internal Server Error"], "")

\* @app.errorhandler(500)
internal_error(error) == Response(500, Json, [error |-> "Internal server error"], "")

\* Neither view of the module touches the request, so its body is never
\* read and the MAX_CONTENT_LENGTH test of the body stream is never made.
ViewReadsBody(ep) == FALSE

\* Werkzeug's own responses.
MethodNotAllowedResponse == Response(405, Html, [document |-> "405 Method Not Allowed"], "")
EntityTooLargeResponse == Response(413, Html, [document |-> "413 Request Entity Too Large"], "")
OptionsResponse == Response(200, Html, [document |-> ""], "")
DebuggerResponse == Response(500, Html, [document |-> "Traceback (most recent call last)"], "")

\* Flask.handle_exception: with debug on the exception propagates to the
\* debugger of app.run; otherwise the registered 500 handler answers.
handle_exception(exc, debug) ==
    IF debug THEN DebuggerResponse ELSE internal_error(exc)

\* No handler is registered for 405: werkzeug's default response.
handle_method_not_allowed(req) == MethodNotAllowedResponse

\* Flask.wsgi_app: route, call the view, map what it raises.
wsgi_app(req, cfg, tmpl, now, fileExists) ==
    LET route == Match(req.method, req.path)
        ep    == route.endpoint
        rv    == CASE ep = "index"        -> index(tmpl)
                   [] ep = "health_check" -> health_check(now)
                   [] ep = "static"       -> send_static_file(fileExists)
                   [] OTHER               -> Raised("NotFound")
    IN  CASE route.kind = "NotFound"         -> not_found("NotFound")
          [] route.kind = "MethodNotAllowed" -> handle_method_not_allowed(req)
          [] OTHER ->
               IF req.method = "OPTIONS" THEN OptionsResponse
               ELSE IF ViewReadsBody(ep) /\ req.contentLength > cfg.MAX_CONTENT_LENGTH
               THEN EntityTooLargeResponse
               ELSE IF rv.exc = "" THEN rv.resp
               ELSE IF rv.exc = "NotFound" THEN not_found(rv.exc)
               ELSE handle_exception(rv.exc, cfg.debug)

(***************************************************************************)
(* State.                                                                  *)
(*   env, portFree, templatePresent  the deployment: environment           *)
(*       variables, whether the port can be bound, whether                 *)
(*       templates/index.html exists                                       *)
(*   proc      "init", "listening", or the exception that ended __main__   *)
(*   config    app.config and app.debug                                    *)
(*   listener  the address app.run bound                                   *)
(*   clock     the system wall clock; startClock its value when __main__   *)
(*             ran; adjusted: it was set back since then                   *)
(*   conn      one slot per connection being served: the request, then     *)
(*             the response; for a GET /health also prev/stale (the        *)
(*             timestamp of the last /health call that had completed when *)
(*             this one arrived, and whether the clock was set back since  *)
(*             that one read it), at (the clock value this call read) and  *)
(*             back (the clock was set back since)                         *)
(*   lastHealth the timestamp of the last completed /health call           *)
(***************************************************************************)
IdleSlot == [st |-> "idle", req |-> NoReq, resp |-> NoResp,
             prev |-> NoTs, stale |-> FALSE, at |-> -1, back |-> FALSE]

IsHealthGet(r) == r.method = "GET" /\ r.path = <<"health">>

InitialConfig == [MAX_CONTENT_LENGTH |-> MAX_CONTENT_LENGTH, debug |-> FALSE]

InitCommon ==
    /\ env \in [PORT : PortValues, FLASK_ENV : FlaskEnvValues]
    /\ portFree \in BOOLEAN
    /\ templatePresent \in BOOLEAN
    /\ proc = "init"
    /\ config = InitialConfig
    /\ listener = NoListener
    /\ clock = 0
    /\ startClock = 0
    /\ adjusted = FALSE
    /\ lastHealth = [ts |-> NoTs, stale |-> FALSE]

Init == InitCommon /\ conn = [t \in {1} |-> IdleSlot]

InitConc == InitCommon /\ conn = [t \in 1..MaxThreads |-> IdleSlot]

\* The __main__ block: read PORT and FLASK_ENV, then app.run binds.
Main ==
    /\ proc = "init"
    /\ startClock' = clock
    /\ LET p == ResolvePort(env)
       IN  \/ /\ ~p.ok
              /\ proc' = "ValueError"
              /\ UNCHANGED <<config, listener>>
           \/ /\ p.ok /\ ~portFree
              /\ proc' = "OSError"
              /\ config' = [config EXCEPT !.debug = ResolveDebug(env)]
              /\ UNCHANGED listener
           \/ /\ p.ok /\ portFree
              /\ proc' = "listening"
              /\ config' = [config EXCEPT !.debug = ResolveDebug(env)]
              /\ listener' = [host |-> BindHost, port |-> p.val]
    /\ UNCHANGED <<env, portFree, templatePresent, clock, adjusted, conn, lastHealth>>

\* A request arrives on a free connection.
Receive(t, r) ==
    /\ proc = "listening"
    /\ conn[t].st = "idle"
    /\ conn' = [conn EXCEPT ![t] =
                  [st |-> "received", req |-> r, resp |-> NoResp,
                   prev |-> IF IsHealthGet(r) THEN lastHealth.ts ELSE NoTs,
                   stale |-> IsHealthGet(r) /\ lastHealth.stale,
                   at |-> -1, back |-> FALSE]]
    /\ UNCHANGED <<env, portFree, templatePresent, proc, config, listener,
                   clock, startClock, adjusted, lastHealth>>

\* The view or error handler writes to app.config.
HandleConfigWriting(t) == config' = [config EXCEPT !.debug = TRUE]

\* No view and no error handler assigns to app.config or app.debug.
HandleConfig(t) == UNCHANGED config

\* The application handles the request of connection t.
Handle(t) ==
    /\ proc = "listening"
    /\ conn[t].st = "received"
    /\ \E fileExists \in BOOLEAN :
         LET resp == wsgi_app(conn[t].req, config, templatePresent, clock, fileExists)
         IN  conn' = [conn EXCEPT ![t].st = "responded", ![t].resp = resp,
                         ![t].at = IF resp.view = "health_check" THEN clock ELSE -1]
    /\ HandleConfig(t)
    /\ UNCHANGED <<env, portFree, templatePresent, proc, listener,
                   clock, startClock, adjusted, lastHealth>>

\* The response is written and the connection is free again.
Send(t) ==
    /\ proc = "listening"
    /\ conn[t].st = "responded"
    /\ lastHealth' = IF conn[t].resp.view = "health_check"
                     THEN [ts |-> conn[t].resp.body.timestamp, stale |-> conn[t].back]
                     ELSE lastHealth
    /\ conn' = [conn EXCEPT ![t] = IdleSlot]
    /\ UNCHANGED <<env, portFree, templatePresent, proc, config, listener,
                   clock, startClock, adjusted>>

\* Time passes.
Tick ==
    /\ clock < MaxClock
    /\ clock' = clock + 1
    /\ UNCHANGED <<env, portFree, templatePresent, proc, config, listener,
                   startClock, adjusted, conn, lastHealth>>

\* The system wall clock is set back (NTP step, operator).
ClockSetBack ==
    /\ clock > 0
    /\ \E c \in 0..(clock - 1) : clock' = c
    /\ adjusted' = (adjusted \/ proc = "listening")
    /\ lastHealth' = [lastHealth EXCEPT !.stale = (lastHealth.ts # NoTs)]
    /\ conn' = [t \in DOMAIN conn |->
                  [conn[t] EXCEPT
                     !.stale = (conn[t].stale \/ (conn[t].st = "received" /\ conn[t].prev # NoTs)),
                     !.back = (conn[t].back \/ conn[t].at >= 0)]]
    /\ UNCHANGED <<env, portFree, templatePresent, proc, config, listener, startClock>>

Next ==
    \/ Main
    \/ \E t \in DOMAIN conn, r \in Requests : Receive(t, r)
    \/ \E t \in DOMAIN conn : Handle(t)
    \/ \E t \in DOMAIN conn : Send(t)
    \/ Tick
    \/ ClockSetBack

Spec == Init /\ [][Next]_vars

\* Several connections served at once, the clock standing still; the
\* requests are the bodiless GETs and POSTs.
ConcRequests == {r \in Requests : r.method # "OPTIONS" /\ r.contentLength = 0}

NextConc ==
    \/ Main
    \/ \E t \in DOMAIN conn, r \in ConcRequests : Receive(t, r)
    \/ \E t \in DOMAIN conn : Handle(t)
    \/ \E t \in DOMAIN conn : Send(t)

SpecConc == InitConc /\ [][NextConc]_vars

(***************************************************************************)
(* Properties.                                                             *)
(***************************************************************************)
Slots == DOMAIN conn

Responded(t) == conn[t].st = "responded"

IsNotFoundJson(resp) ==
    resp.status = 404 /\ resp.mimetype = Json /\ resp.body = [error |-> "Not found"]

IsInternalErrorJson(resp) ==
    resp.status = 500 /\ resp.mimetype = Json
    /\ resp.body = [error |-> "Internal server error"]

UnderStatic(path) == Len(path) >= 2 /\ path[1] = "static"

\* No empty segment before the last one.
NoRepeatedSlash(path) == \A i \in 1..(Len(path) - 1) : path[i] # ""

\* The request's view raises an exception no handler of the view catches:
\* index() when templates/index.html cannot be loaded.
Faults(r) == r.method = "GET" /\ r.path = <<"">> /\ ~templatePresent

\* C1 as stated: every request whose path is neither "/" nor "/health" is
\* answered 404 with the JSON body {"error": "Not found"}.
C1_Original ==
    \A t \in Slots :
        (Responded(t) /\ conn[t].req.path \notin {<<"">>, <<"health">>})
            => IsNotFoundJson(conn[t].resp)

\* C1 amended: every request whose path is neither "/" nor "/health", is not
\* under /static/ and has no repeated slash is answered 404 with the JSON
\* body {"error": "Not found"}, whatever its method.
C1_Amended ==
    \A t \in Slots :
        (/\ Responded(t)
         /\ conn[t].req.path \notin {<<"">>, <<"health">>}
         /\ ~UnderStatic(conn[t].req.path)
         /\ NoRepeatedSlash(conn[t].req.path))
            => IsNotFoundJson(conn[t].resp)

C1_Witness ==
    \E t \in Slots :
        /\ Responded(t)
        /\ conn[t].req.path = <<"health", "">>
        /\ conn[t].req.method = "POST"
        /\ IsNotFoundJson(conn[t].resp)

\* C2 as stated: a request whose view raises is answered 500 with the JSON
\* body {"error": "Internal server error"}, whatever FLASK_ENV is.
C2_Original ==
    \A t \in Slots :
        (Responded(t) /\ Faults(conn[t].req)) => IsInternalErrorJson(conn[t].resp)

\* C2 amended: a request whose view raises is answered 500; the body is the
\* JSON object {"error": "Internal server error"} when FLASK_ENV is not
\* "development", and the debugger's HTML page when it is.
C2_Amended ==
    \A t \in Slots :
        (Responded(t) /\ Faults(conn[t].req)) =>
            /\ conn[t].resp.status = 500
            /\ ~ResolveDebug(env) => IsInternalErrorJson(conn[t].resp)
            /\ ResolveDebug(env) => conn[t].resp = DebuggerResponse

C2_Witness ==
    \E t \in Slots :
        /\ Responded(t) /\ Faults(conn[t].req)
        /\ env.FLASK_ENV.val = "production"
        /\ IsInternalErrorJson(conn[t].resp)

\* What C3 says of every GET /health apart from the bound by the start time.
HealthShape(t) ==
    /\ conn[t].resp.status = 200
    /\ conn[t].resp.mimetype = Json
    /\ DOMAIN conn[t].resp.body = {"status", "timestamp"}
    /\ conn[t].resp.body.status = "healthy"
    /\ IsIso8601(conn[t].resp.body.timestamp)
    /\ conn[t].at >= 0
    /\ conn[t].resp.body.timestamp = isoformat(UtcNow(conn[t].at))

StartTs == isoformat(UtcNow(startClock))

\* C3 as stated: every GET /health is answered 200 with exactly the fields
\* status = "healthy" and timestamp, an ISO-8601 datetime read from the
\* clock during the call and no earlier than the process start time.
C3_Original ==
    \A t \in Slots :
        (Responded(t) /\ IsHealthGet(conn[t].req)) =>
            /\ HealthShape(t)
            /\ TsLeq(StartTs, conn[t].resp.body.timestamp)

\* C3 amended: as C3, the timestamp being no earlier than the process start
\* time provided the wall clock was not set back since the process started.
C3_Amended ==
    \A t \in Slots :
        (Responded(t) /\ IsHealthGet(conn[t].req)) =>
            /\ HealthShape(t)
            /\ ~adjusted => TsLeq(StartTs, conn[t].resp.body.timestamp)

C3_Witness ==
    \E t \in Slots :
        /\ Responded(t) /\ IsHealthGet(conn[t].req)
        /\ ~adjusted
        /\ conn[t].at > startClock
        /\ Len(conn[t].resp.body.timestamp) = 26

\* C4 as stated: every GET / is answered 200 with the page and an HTML
\* content type; the index view cannot fail once the process has started.
C4_Original ==
    \A t \in Slots :
        (Responded(t) /\ conn[t].req.method = "GET" /\ conn[t].req.path = <<"">>) =>
            /\ conn[t].resp.status = 200
            /\ conn[t].resp.mimetype = Html
            /\ conn[t].resp.body = [document |-> "index.html"]

\* C4 amended: every GET / is answered 200 with the page and an HTML content
\* type when templates/index.html can be loaded; when it cannot, the process
\* has started all the same and the request is answered with status 500.
C4_Amended ==
    \A t \in Slots :
        (Responded(t) /\ conn[t].req.method = "GET" /\ conn[t].req.path = <<"">>) =>
            /\ templatePresent =>
                  /\ conn[t].resp.status = 200
                  /\ conn[t].resp.mimetype = Html
                  /\ conn[t].resp.body = [document |-> "index.html"]
            /\ ~templatePresent => (proc = "listening" /\ conn[t].resp.status = 500)

C4_Witness ==
    \E t \in Slots :
        /\ Responded(t) /\ conn[t].req.method = "GET" /\ conn[t].req.path = <<"">>
        /\ templatePresent
        /\ conn[t].resp.status = 200 /\ conn[t].resp.view = "index"

\* C5 as stated: no request whose body is larger than 16 MiB is answered by
\* a view (index or health_check) with its normal 200 response.
C5_Claim ==
    \A t \in Slots :
        (Responded(t) /\ conn[t].req.contentLength > 16 * 1024 * 1024) =>
            ~(conn[t].resp.view \in {"index", "health_check"} /\ conn[t].resp.status = 200)

\* The port C6 says is bound.
ClaimedPort(e) == IF e.PORT.set /\ IsDigits(e.PORT.val) THEN Num(e.PORT.val) ELSE 8082

\* C6 as stated: once __main__ has run (the port being free), the listener is
\* bound to 0.0.0.0 on the value of PORT when it is a parsable integer and
\* on 8082 when PORT is unset or not parsable.
C6_Claim ==
    (proc # "init" /\ portFree) =>
        (proc = "listening" /\ listener = [host |-> "0.0.0.0", port |-> ClaimedPort(env)])

\* C7 as stated: a /health call that starts after another one completed
\* returns a timestamp no earlier than that one's.
C7_Original ==
    \A t \in Slots :
        (Responded(t) /\ IsHealthGet(conn[t].req) /\ conn[t].prev # NoTs) =>
            TsLeq(conn[t].prev, conn[t].resp.body.timestamp)

\* C7 amended: a /health call that starts after another one completed
\* returns a timestamp no earlier than that one's, provided the wall clock
\* was not set back between the two calls' readings of it.
C7_Amended ==
    \A t \in Slots :
        (/\ Responded(t) /\ IsHealthGet(conn[t].req)
         /\ conn[t].prev # NoTs /\ ~conn[t].stale) =>
            TsLeq(conn[t].prev, conn[t].resp.body.timestamp)

C7_Witness ==
    \E t \in Slots :
        /\ Responded(t) /\ IsHealthGet(conn[t].req)
        /\ conn[t].prev # NoTs /\ ~conn[t].stale
        /\ conn[t].prev # conn[t].resp.body.timestamp
        /\ TsLeq(conn[t].prev, conn[t].resp.body.timestamp)

PathMatched(path) ==
    \/ path \in {<<"">>, <<"health">>}
    \/ UnderStatic(path) /\ path[2] # ""

C9_Claim == (proc \notin {"init", "listening"}) => (proc = "OSError" /\ ~portFree)

\* C10: while requests are served, on several connections at once, the
\* startup configuration keeps the values it was given at startup: the
\* 16 MiB limit, the debug flag of FLASK_ENV and the port of PORT.
C10_ConfigKept ==
    proc = "listening" =>
        /\ config = [MAX_CONTENT_LENGTH |-> 16 * 1024 * 1024, debug |-> ResolveDebug(env)]
        /\ listener = [host |-> "0.0.0.0", port |-> ResolvePort(env).val]

C10_Witness ==
    \E t, u \in Slots :
        /\ t # u
        /\ Responded(t) /\ conn[t].resp.status = 500
        /\ Responded(u) /\ conn[u].resp.status = 404
        /\ ~config.debug
        /\ lastHealth.ts # NoTs

====
